---- MODULE Spec2Model ----
(***************************************************************************)
(* Model of the OpenGApps mirror bot's package handling:                   *)
(*   - Package.CreateMirror of internal/pkg/storage (two tiers: local      *)
(*     storage and remote upload) and of the older gapps package (one      *)
(*     tier, MirrorURL);                                                   *)
(*   - the download queue's AddMultiple / utils.Download retry loop, which *)
(*     CreateMirror calls with a budget of 20;                             *)
(*   - parseAsset, the asset name parser.                                  *)
(* Go strings are sequences of one-character strings, so that splitting,   *)
(* trimming, joining and formatting are computed the way the code does.    *)
(* Go errors are the chain of messages errors.Wrap builds, outermost       *)
(* first; the empty chain is nil.                                          *)
(***************************************************************************)
EXTENDS Integers, Sequences, FiniteSets, TLC

\* ------------------------------------------------------------------ bounds
\* CreateMirror calls made on the one Package of a behaviour.
MaxCalls == 3
\* Largest retry budget a direct caller of AddMultiple passes.
MaxRetriesArg == 3

\* ------------------------------------------------------------- Go strings
Empty == <<>>

HasPrefix(s, prefix) ==
    /\ Len(s) >= Len(prefix)
    /\ SubSeq(s, 1, Len(prefix)) = prefix

\* strings.TrimPrefix
TrimPrefix(s, prefix) ==
    IF HasPrefix(s, prefix) THEN SubSeq(s, Len(prefix) + 1, Len(s)) ELSE s

\* Where the non-empty string sep occurs in s.
Occurs(s, sep, i) ==
    /\ i + Len(sep) - 1 <= Len(s)
    /\ SubSeq(s, i, i + Len(sep) - 1) = sep

\* strings.Split(s, sep) for a non-empty sep: n occurrences give n+1 parts.
RECURSIVE Split(_, _)
Split(s, sep) ==
    IF \E i \in 1..Len(s) : Occurs(s, sep, i)
    THEN LET i == CHOOSE k \in 1..Len(s) :
                      /\ Occurs(s, sep, k)
                      /\ \A j \in 1..(k - 1) : ~Occurs(s, sep, j)
         IN  <<SubSeq(s, 1, i - 1)>>
                \o Split(SubSeq(s, i + Len(sep), Len(s)), sep)
    ELSE <<s>>

\* fmt.Sprintf(format, arg) for a format holding the verb %s: the first %s
\* is replaced by arg. A format without a verb gets Go's %!(EXTRA ...) note.
Sprintf(format, arg) ==
    IF \E i \in 1..(Len(format) - 1) : format[i] = "%" /\ format[i + 1] = "s"
    THEN LET i == CHOOSE k \in 1..(Len(format) - 1) :
                      /\ format[k] = "%" /\ format[k + 1] = "s"
                      /\ \A j \in 1..(k - 1) :
                            ~(format[j] = "%" /\ format[j + 1] = "s")
         IN  SubSeq(format, 1, i - 1) \o arg \o SubSeq(format, i + 2, Len(format))
    ELSE format \o <<"%", "!", "(", "E", "X", "T", "R", "A", ")">>

\* ------------------------------------------------------------- Go errors
Nil == <<>>

\* errors.Wrap(err, msg)
Wrap(err, msg) == <<msg>> \o err

\* errors.Errorf(msg, detail)
Errorf(msg, detail) == <<msg, detail>>

\* ------------------------------------------------------------ enumerations
\* The closed enumerations of the gapps package and their canonical strings.
Platforms == {"arm", "arm64"}
Androids == {"10.0", "11.0"}
Variants == {"pico", "nano"}

PlatformName ==
    [x \in Platforms |->
        IF x = "arm" THEN <<"a", "r", "m">> ELSE <<"a", "r", "m", "6", "4">>]

\* The enumeration is defined outside the files modelled here. Its canonical
\* string for an Android version is either the version as release file names
\* write it (11.0) or the constant's name without the dot (110).
AndroidDotted ==
    [x \in Androids |->
        IF x = "10.0" THEN <<"1", "0", ".", "0">> ELSE <<"1", "1", ".", "0">>]

AndroidPlain ==
    [x \in Androids |->
        IF x = "10.0" THEN <<"1", "0", "0">> ELSE <<"1", "1", "0">>]

AndroidTables == {AndroidDotted, AndroidPlain}

\* PlatformString, AndroidString, VariantString: the value whose canonical
\* string is s, or an error for an unknown token.
Lookup(table, s) ==
    IF \E x \in DOMAIN table : table[x] = s
    THEN [v |-> CHOOSE x \in DOMAIN table : table[x] = s, err |-> Nil]
    ELSE [v |-> "0", err |-> <<"does not belong to values">>]

VariantName ==
    [x \in Variants |->
        IF x = "pico" THEN <<"p", "i", "c", "o">> ELSE <<"n", "a", "n", "o">>]

\* ----------------------------------------------------------- configuration
gappsSeparator == <<"-">>
gappsPrefix == <<"o", "p", "e", "n", "_", "g", "a", "p", "p", "s">>
\* gapps.TimeFormat, the layout 20060102
TimeFormat == <<"2", "0", "0", "6", "0", "1", "0", "2">>
Date0 == <<"2", "0", "2", "3", "0", "1", "0", "1">>

\* gapps.local_path: unset, a storage root written with its closing slash,
\* and the same root written without it.
LocalPaths ==
    {Empty, <<"/", "d", "a", "t", "a", "/">>, <<"/", "d", "a", "t", "a">>}
LocalURLs == {Empty, <<"l", ":", "%", "s">>}
RemoteURLs == {Empty, <<"r", ":", "%", "s">>}
\* gapps.uploadURL of the older version
uploadURL ==
    <<"h", "t", "t", "p", "s", ":", "/", "/", "t", "r", "a", "n", "s", "f", "e",
      "r", ".", "s", "h", "/", "%", "s">>

Configs ==
    [local_path : LocalPaths, local_url : LocalURLs, remote_url : RemoteURLs,
     prefix : {gappsPrefix}, time_format : {TimeFormat}]

\* ---------------------------------------------------------------- Package
Name0 ==
    gappsPrefix \o gappsSeparator \o PlatformName["arm64"] \o gappsSeparator
        \o AndroidDotted["11.0"] \o gappsSeparator \o VariantName["pico"]
        \o gappsSeparator \o Date0 \o <<".", "z", "i", "p">>

Origin0 == <<"o", ":", "/", "a">>
GoodSum == <<"c", "a", "f", "e">>
Size0 == 4

\* URLs a Package loaded from the bot's store may already carry.
OldLocal == <<"l", ":", "o", "l", "d">>
OldRemote == <<"r", ":", "o", "l", "d">>
OldMirror == <<"t", ":", "o", "l", "d">>

\* storage.Package
StoragePackages ==
    [Name : {Name0}, Date : {Date0}, OriginURL : {Origin0},
     LocalURL : {Empty, OldLocal}, RemoteURL : {Empty, OldRemote},
     MD5 : {Empty, GoodSum}, Size : {Size0},
     Platform : {"arm64"}, Android : {"11.0"}, Variant : {"pico"}]

\* gapps.Package
GappsPackages ==
    [Name : {Name0}, Date : {Date0}, OriginURL : {Origin0},
     MirrorURL : {Empty, OldMirror},
     MD5 : {Empty, GoodSum}, Size : {0, Size0},
     Platform : {"arm64"}, Android : {"11.0"}, Variant : {"pico"}]

\* ----------------------------------------------------------- name parser
parsingErrText == "parsing error"

\* A nil *Package.
NilPackage == [nil |-> TRUE]

\* gapps.ParsePackageParts(args), with the Android enumeration's string table.
ParsePackageParts(args, androidTable) ==
    LET bad(e) == [platform |-> "0", android |-> "0", variant |-> "0", err |-> e]
    IN  IF Len(args) # 3
        THEN bad(Errorf("bad number of arguments: want 4, got %d", "len"))
        ELSE LET platform == Lookup(PlatformName, args[1])
                 android == Lookup(androidTable, args[2])
                 variant == Lookup(VariantName, args[3])
             IN  IF platform.err # Nil THEN bad(Wrap(platform.err, parsingErrText))
                 ELSE IF android.err # Nil
                 THEN bad(Wrap(android.err, parsingErrText))
                 ELSE IF variant.err # Nil
                 THEN bad(Wrap(variant.err, parsingErrText))
                 ELSE [platform |-> platform.v, android |-> android.v,
                       variant |-> variant.v, err |-> Nil]

Digits == {"0", "1", "2", "3", "4", "5", "6", "7", "8", "9"}

DigitVal(c) ==
    CASE c = "0" -> 0 [] c = "1" -> 1 [] c = "2" -> 2 [] c = "3" -> 3
      [] c = "4" -> 4 [] c = "5" -> 5 [] c = "6" -> 6 [] c = "7" -> 7
      [] c = "8" -> 8 [] OTHER -> 9

RECURSIVE Atoi(_)
Atoi(s) == IF s = Empty THEN 0
           ELSE 10 * Atoi(SubSeq(s, 1, Len(s) - 1)) + DigitVal(s[Len(s)])

DaysIn(month, year) ==
    IF month = 2
    THEN IF year % 4 = 0 /\ (year % 100 # 0 \/ year % 400 = 0) THEN 29 ELSE 28
    ELSE IF month \in {4, 6, 9, 11} THEN 30 ELSE 31

\* time.Parse whose error is not looked at: every value passes.
ParseTime_AnyDate(layout, value) == Nil

\* time.Parse(layout, value) for the layout 20060102: the error, nil for a
\* value of four year digits, two month digits and two day digits that name
\* a day of the calendar.
ParseTime(layout, value) ==
    IF layout # TimeFormat THEN <<"parsing time: layout not modelled">>
    ELSE IF Len(value) # 8 \/ \E i \in 1..Len(value) : value[i] \notin Digits
    THEN <<"parsing time: cannot parse">>
    ELSE LET year == Atoi(SubSeq(value, 1, 4))
             month == Atoi(SubSeq(value, 5, 6))
             day == Atoi(SubSeq(value, 7, 8))
         IN  IF month < 1 \/ month > 12
             THEN <<"parsing time: month out of range">>
             ELSE IF day < 1 \/ day > DaysIn(month, year)
             THEN <<"parsing time: day out of range">>
             ELSE Nil

\* The Package literal parseAsset returns: storage.Package has LocalURL and
\* RemoteURL, gapps.Package has MirrorURL, all empty.
NewPackage(version, name, date, url, md5Sum, size, parts) ==
    IF version = "gapps"
    THEN [Name |-> name, Date |-> date, OriginURL |-> url, MirrorURL |-> Empty,
          MD5 |-> md5Sum, Size |-> size, Platform |-> parts.platform,
          Android |-> parts.android, Variant |-> parts.variant]
    ELSE [Name |-> name, Date |-> date, OriginURL |-> url, LocalURL |-> Empty,
          RemoteURL |-> Empty, MD5 |-> md5Sum, Size |-> size,
          Platform |-> parts.platform, Android |-> parts.android,
          Variant |-> parts.variant]

\* The first two of the three dot-separated parts, joined again.
JoinPath(parts) == parts[1] \o parts[2]

\* parseAsset(cfg, asset, md5Sum); the older version reads the prefix and the
\* layout from its constants gappsPrefix and TimeFormat.
parseAsset(version, prefix, layout, androidTable, asset, md5Sum) ==
    LET name == asset.Name
        parts == Split(TrimPrefix(name, prefix \o gappsSeparator), <<".">>)
        fail(e) == [pkg |-> NilPackage, err |-> e]
    IN  IF Len(parts) # 3
        THEN fail(Errorf("incorrect package name: %s", "name"))
        ELSE LET path == JoinPath(parts)
                 ext == parts[3]
             IN  IF ext # <<"z", "i", "p">>
                 THEN fail(Errorf("incorrect package extension: %s", "ext"))
                 ELSE LET tokens == Split(path, gappsSeparator) IN
                      IF Len(tokens) # 4
                      THEN fail(Errorf("incorrect package name: %s", "name"))
                      ELSE LET e == ParsePackageParts(SubSeq(tokens, 1, 3),
                                                      androidTable)
                               t == ParseTime(layout, tokens[4])
                           IN  IF e.err # Nil THEN fail(e.err)
                               ELSE IF t # Nil
                               THEN fail(Wrap(t, "unable to parse time"))
                               ELSE [pkg |-> NewPackage(version, name, tokens[4],
                                                        asset.URL, md5Sum,
                                                        asset.Size, e),
                                     err |-> Nil]

\* How fetching the checksum file can go.
MD5Outcomes == {"ok", "download", "open", "readall"}

\* getMD5(dq, url): the checksum file is fetched with AddSingle, opened and
\* read; the checksum is what precedes the first double space.
getMD5(content, outcome) ==
    IF outcome = "download"
    THEN [sum |-> Empty, err |-> <<"unable to download MD5 file", "get">>]
    ELSE IF outcome = "open"
    THEN [sum |-> Empty, err |-> <<"unable to open MD5 file", "open">>]
    ELSE IF outcome = "readall"
    THEN [sum |-> Empty, err |-> <<"unable to read MD5 file", "read">>]
    ELSE [sum |-> Split(content, <<" ", " ">>)[1], err |-> Nil]

\* The older getMD5(url): utils.Download(url, 1, 0), whose error is returned
\* as it is.
Gapps_getMD5(content, outcome) ==
    IF outcome # "ok"
    THEN [sum |-> Empty, err |-> <<"get">>]
    ELSE [sum |-> Split(content, <<" ", " ">>)[1], err |-> Nil]

\* formPackage(dq, cfg, zipAsset, md5Asset) and the older formPackage.
formPackage(version, prefix, layout, androidTable, zipAsset, md5) ==
    IF md5.err # Nil
    THEN [pkg |-> NilPackage, err |-> Wrap(md5.err, "unable to download md5")]
    ELSE LET r == parseAsset(version, prefix, layout, androidTable, zipAsset,
                             md5.sum)
         IN  IF r.err # Nil
             THEN [pkg |-> NilPackage,
                   err |-> Wrap(r.err, "unable to create package")]
             ELSE r

\* ------------------------------------------------------------------ state
VARIABLES
    caller,     \* whose call this behaviour follows: "storage" (storage
                \* CreateMirror), "gapps" (the older CreateMirror) or "queue"
                \* (a direct call of AddMultiple)
    cfg,        \* the viper configuration (storage version)
    p,          \* the Package CreateMirror is called on
    pc,         \* position inside the running call, "idle" between calls
    dq,         \* the download job of the running AddMultiple / Download call
    filePath,   \* CreateMirror's local filePath (tmpFileName in the older one)
    deferred,   \* paths registered with defer os.Remove
    fs,         \* files that exist on disk
    dirs,       \* directories created under the local storage root
    http,       \* the upload request of the current call and its response
    ret,        \* what the last finished CreateMirror call returned
    calls,      \* CreateMirror calls started so far
    p0,         \* the Package as it was when the current call was entered
    did,        \* what the current call has done so far
    androidNames, \* the Android enumeration's table of canonical strings
    asset,      \* the release assets formPackage is given (zip and checksum)
    parsed,     \* what formPackage returned: the Package and the error
    pair        \* two CreateMirror calls running side by side: each call's
                \* Package, locals and position, and the disk they share

vars ==
    <<caller, cfg, p, pc, dq, filePath, deferred, fs, dirs, http, ret, calls,
      p0, did, androidNames, asset, parsed, pair>>

NoJob ==
    [url |-> Empty, sum |-> Empty, maxRetries |-> 0, size |-> 0, attempts |-> 0,
     first |-> "none", last |-> "none", payload |-> "none", path |-> Empty,
     err |-> Nil]

NoHTTP ==
    [sent |-> FALSE, url |-> Empty, file |-> Empty, outcome |-> "none",
     status |-> 0, body |-> Empty]

NoDid == [download |-> FALSE, move |-> FALSE, placed |-> FALSE, put |-> FALSE]

\* No pair of calls is running.
NoPair == [proc |-> <<>>, fs |-> {}, dirs |-> {}]

\* The temporary file of the n-th call. Every attempt downloads to a fresh
\* file and a rejected one is discarded before the next attempt, so one name
\* per call stands for the file the call ends up with.
TmpName(n) ==
    <<"/", "t", "/">> \o
        <<CASE n = 0 -> "0" [] n = 1 -> "1" [] n = 2 -> "2" [] n = 3 -> "3"
            [] n = 4 -> "4" [] OTHER -> "9">>

\* ---------------------------------------------------------- download queue
\* What one transfer attempt can bring back: the right bytes, bytes of the
\* right length that are corrupted, a truncated body, or a transport error
\* (connection failure or non-2xx status).
Outcomes == {"good", "corrupt", "short", "neterr"}

\* The check AddMultiple makes of one attempt: the checksum is compared only
\* when an expected checksum is given, the length only when a size is given.
AttemptError(sum, size, outcome) ==
    IF outcome = "neterr" THEN <<"transport error">>
    ELSE IF sum # Empty /\ outcome # "good" THEN <<"checksum mismatch">>
    ELSE IF size # 0 /\ outcome = "short" THEN <<"short read">>
    ELSE Nil

NewJob(url, sum, maxRetries, size) ==
    [NoJob EXCEPT !.url = url, !.sum = sum, !.maxRetries = maxRetries,
                  !.size = size]

\* One iteration of the retry loop: the job after an attempt that ended with
\* `outcome`, whose file, if it is kept, is `tmp`.
Attempt(job, outcome, tmp) ==
    LET e == AttemptError(job.sum, job.size, outcome)
        n == job.attempts + 1
        j == [job EXCEPT !.attempts = n, !.last = outcome,
                         !.first = IF n = 1 THEN outcome ELSE @]
    IN  IF e = Nil
        THEN [j EXCEPT !.payload = outcome, !.path = tmp, !.err = Nil]
        ELSE [j EXCEPT !.err = e]

\* The loop ends with the first accepted attempt, or with the last error once
\* the budget is used up.
Finished(job) ==
    /\ job.attempts > 0
    /\ \/ job.err = Nil
       \/ job.attempts >= job.maxRetries

\* The job ends with the call; the caller keeps the file it returned.
Release(job) == [NoJob EXCEPT !.path = job.path, !.payload = job.payload]

\* dq.AddMultiple(url, sum, maxRetries, size): one attempt of the loop.
AddMultiple_Attempt ==
    /\ pc = "AddMultiple"
    /\ \E o \in Outcomes :
          LET j == Attempt(dq, o, TmpName(calls)) IN
          /\ dq' = j
          /\ fs' = IF j.err = Nil THEN fs \cup {j.path} ELSE fs
          /\ pc' = IF Finished(j) THEN "AddMultiple_ret" ELSE "AddMultiple"
    /\ UNCHANGED <<pair, androidNames, asset, parsed, caller, cfg, p, filePath,
                   deferred, dirs, http, ret, calls, p0, did>>

\* --------------------------------------------------- storage CreateMirror
\* A budget one short of the one the code passes.
DownloadRetries_Off == 20 - 1

\* The budget CreateMirror gives the artifact download.
DownloadRetries == 20

\* The early return looking at the remote tier only.
AlreadyMirrored_RemoteOnly(c, pkg) ==
    c.remote_url # Empty /\ pkg.RemoteURL # Empty

\* The early return of CreateMirror.
AlreadyMirrored(c, pkg) ==
    \/ c.local_url # Empty /\ pkg.LocalURL # Empty
    \/ c.remote_url # Empty /\ pkg.RemoteURL # Empty

\* CreateMirror asking for no checksum verification.
ExpectedSum_None(pkg) == Empty

\* The checksum CreateMirror hands to AddMultiple.
ExpectedSum(pkg) == pkg.MD5

\* CreateMirror is entered: it returns nil at once, or starts the download.
CreateMirror_Entry ==
    /\ caller = "storage"
    /\ pc = "idle"
    /\ calls < MaxCalls
    /\ calls' = calls + 1
    /\ p0' = p
    /\ http' = NoHTTP
    /\ filePath' = Empty
    /\ deferred' = {}
    /\ IF AlreadyMirrored(cfg, p)
       THEN /\ ret' = Nil
            /\ did' = NoDid
            /\ dq' = NoJob
            /\ pc' = "idle"
       ELSE /\ dq' = NewJob(p.OriginURL, ExpectedSum(p), DownloadRetries, p.Size)
            /\ did' = [NoDid EXCEPT !.download = TRUE]
            /\ pc' = "AddMultiple"
            /\ UNCHANGED ret
    /\ UNCHANGED <<pair, androidNames, asset, parsed, caller, cfg, p, fs, dirs>>

\* The download error ignored: CreateMirror goes on to the upload.
CreateMirror_DownloadFailed_Ignored ==
    /\ caller = "storage"
    /\ pc = "AddMultiple_ret"
    /\ dq.err # Nil
    /\ filePath' = dq.path
    /\ pc' = "remote"
    /\ UNCHANGED <<pair, androidNames, asset, parsed, caller, cfg, p, dq, deferred,
                   fs, dirs, http, ret, calls, p0, did>>

\* AddMultiple returned an error: CreateMirror wraps and returns it.
CreateMirror_DownloadFailed ==
    /\ caller = "storage"
    /\ pc = "AddMultiple_ret"
    /\ dq.err # Nil
    /\ ret' = Wrap(dq.err, "unable to read file body")
    /\ pc' = "idle"
    /\ UNCHANGED <<pair, androidNames, asset, parsed, caller, cfg, p, dq, filePath,
                   deferred, fs, dirs, http, calls, p0, did>>

MoveOutcomes == {"ok", "mkdir", "rename", "chmod"}

\* p.move(origin, destFolder), with the step that fails, if one does: the
\* path and error it returns and the disk it leaves.
move(pkg, origin, destFolder, outcome, files, ds) ==
    LET dir == destFolder \o PlatformName[pkg.Platform] \o <<"/">> \o pkg.Date
        path == dir \o <<"/">> \o pkg.Name
    IN  IF outcome = "mkdir"
        THEN [path |-> Empty, err |-> <<"unable to create folder">>,
              fs |-> files, dirs |-> ds, renamed |-> FALSE]
        ELSE IF outcome = "rename" \/ origin \notin files
        THEN [path |-> Empty, err |-> <<"unable to move file">>,
              fs |-> files, dirs |-> ds \cup {dir}, renamed |-> FALSE]
        ELSE IF outcome = "chmod"
        THEN [path |-> Empty, err |-> <<"unable to set file permissions">>,
              fs |-> (files \ {origin}) \cup {path}, dirs |-> ds \cup {dir},
              renamed |-> TRUE]
        ELSE [path |-> path, err |-> Nil,
              fs |-> (files \ {origin}) \cup {path}, dirs |-> ds \cup {dir},
              renamed |-> TRUE]

\* The return clearing the whole temporary directory once a removal is due.
RunDeferred_TempDir(files, registered) ==
    IF registered = {} THEN files
    ELSE {f \in files : ~HasPrefix(f, <<"/", "t", "/">>)}

\* The deferred os.Remove calls run when CreateMirror returns.
RunDeferred(files, registered) == files \ registered

\* The deferred removal left out.
DeferRemove_Dropped(registered, path) == registered

\* defer os.Remove(path)
DeferRemove(registered, path) == registered \cup {path}

\* The removal deferred on both branches, for the moved file too.
Registered_Always(localPath, registered, path) == DeferRemove(registered, path)

\* The removals registered once the local_path test is through: the deferred
\* os.Remove stands in its else branch only.
Registered(localPath, registered, path) ==
    IF localPath # Empty THEN registered ELSE DeferRemove(registered, path)

\* The local URL stored in the field next to the one meant.
SetLocalURL_InOrigin(pkg, url) == [pkg EXCEPT !.OriginURL = url]

\* p.LocalURL = url
SetLocalURL(pkg, url) == [pkg EXCEPT !.LocalURL = url]

\* The download succeeded: the file is moved into local storage when
\* gapps.local_path is set (and LocalURL filled in when gapps.local_url is
\* set too), and is registered for removal at function exit otherwise.
CreateMirror_Place ==
    /\ caller = "storage"
    /\ pc = "AddMultiple_ret"
    /\ dq.err = Nil
    /\ IF cfg.local_path # Empty
       THEN \E o \in MoveOutcomes :
              LET m == move(p, dq.path, cfg.local_path, o, fs, dirs) IN
              /\ fs' = m.fs
              /\ dirs' = m.dirs
              /\ did' = [did EXCEPT !.move = TRUE, !.placed = m.renamed]
              /\ deferred' = Registered(cfg.local_path, deferred, m.path)
              /\ IF m.err # Nil
                 THEN /\ ret' = Wrap(m.err, "unable to move the file to storage")
                      /\ filePath' = m.path
                      /\ pc' = "idle"
                      /\ p' = p
                 ELSE /\ filePath' = m.path
                      /\ p' = IF cfg.local_url # Empty
                              THEN SetLocalURL(p,
                                      Sprintf(cfg.local_url,
                                              TrimPrefix(m.path, cfg.local_path)))
                              ELSE p
                      /\ pc' = "remote"
                      /\ ret' = ret
       ELSE /\ filePath' = dq.path
            /\ deferred' = Registered(cfg.local_path, deferred, dq.path)
            /\ pc' = "remote"
            /\ UNCHANGED <<p, fs, dirs, did, ret>>
    /\ dq' = Release(dq)
    /\ UNCHANGED <<pair, androidNames, asset, parsed, caller, cfg, http, calls, p0>>

\* How the upload can go: the file cannot be opened, the request cannot be
\* built, the request fails, or it is answered with some status and a body
\* whose reading fails ("readall") or succeeds ("ok").
UploadOutcomes == {"open", "newrequest", "do", "readall", "ok"}
StatusOK == 200
Statuses == {StatusOK, 201, 404, 500}
Bodies == {<<"r", ":", "1">>, <<"r", ":", "2">>}

\* The upload taking every 2xx answer for a success.
Upload_Any2xx(url, file, outcome, status, body, openMsg) ==
    IF outcome \in {"open", "newrequest"}
    THEN [http |-> [NoHTTP EXCEPT !.outcome = outcome], err |-> <<openMsg>>]
    ELSE LET sent == [NoHTTP EXCEPT !.sent = TRUE, !.url = url, !.file = file,
                                    !.outcome = outcome]
             answered == [sent EXCEPT !.status = status, !.body = body]
         IN  IF outcome = "do"
             THEN [http |-> sent, err |-> <<"unable to make upload request">>]
             ELSE IF status < 200 \/ status > 299
             THEN [http |-> answered, err |-> <<"unable to make upload request">>]
             ELSE IF outcome = "readall"
             THEN [http |-> answered,
                   err |-> <<"unable to read mirror response body">>]
             ELSE [http |-> answered, err |-> Nil]

\* The upload of `file` to `url` going as `outcome` and answered, if it is,
\* with `status` and `body`: the request and answer, and the error returned.
\* Only an answer 200 OK whose body was read gives no error.
Upload(url, file, outcome, status, body, openMsg) ==
    IF outcome = "open"
    THEN [http |-> [NoHTTP EXCEPT !.outcome = outcome],
          err |-> <<openMsg, "open">>]
    ELSE IF outcome = "newrequest"
    THEN [http |-> [NoHTTP EXCEPT !.outcome = outcome],
          err |-> <<"unable to create upload request", "url">>]
    ELSE LET sent == [NoHTTP EXCEPT !.sent = TRUE, !.url = url, !.file = file,
                                    !.outcome = outcome]
             answered == [sent EXCEPT !.status = status, !.body = body]
         IN  IF outcome = "do"
             THEN [http |-> sent,
                   err |-> <<"unable to make upload request", "transport">>]
             ELSE IF status # StatusOK
             THEN [http |-> answered,
                   err |-> Errorf("unable to make upload request: %v", "status")]
             ELSE IF outcome = "readall"
             THEN [http |-> answered,
                   err |-> <<"unable to read mirror response body", "read">>]
             ELSE [http |-> answered, err |-> Nil]

\* The rest of CreateMirror: the upload when gapps.remote_url is set, then the
\* deferred removals and the return.
CreateMirror_Remote ==
    /\ caller = "storage"
    /\ pc = "remote"
    /\ IF cfg.remote_url # Empty
       THEN \E o \in UploadOutcomes, st \in Statuses, b \in Bodies :
              LET u == Upload(Sprintf(cfg.remote_url, p.Name), filePath,
                              IF filePath \in fs THEN o ELSE "open", st, b,
                              "unable to create temp file")
              IN  /\ http' = u.http
                  /\ did' = [did EXCEPT !.put = u.http.sent]
                  /\ ret' = u.err
                  /\ p' = IF u.err = Nil
                          THEN [p EXCEPT !.RemoteURL = u.http.body]
                          ELSE p
       ELSE /\ ret' = Nil
            /\ UNCHANGED <<http, did, p>>
    /\ fs' = RunDeferred(fs, deferred)
    /\ pc' = "idle"
    /\ UNCHANGED <<pair, androidNames, asset, parsed, caller, cfg, dq, filePath,
                   deferred, dirs, calls, p0>>

\* ----------------------------------------------------- gapps CreateMirror
\* The older CreateMirror is entered: it returns nil at once when MirrorURL is
\* set, or starts utils.Download(p.OriginURL, 20, p.Size).
GappsCreateMirror_Entry ==
    /\ caller = "gapps"
    /\ pc = "idle"
    /\ calls < MaxCalls
    /\ calls' = calls + 1
    /\ p0' = p
    /\ http' = NoHTTP
    /\ filePath' = Empty
    /\ deferred' = {}
    /\ IF p.MirrorURL # Empty
       THEN /\ ret' = Nil
            /\ did' = NoDid
            /\ dq' = NoJob
            /\ pc' = "idle"
       ELSE /\ dq' = NewJob(p.OriginURL, Empty, DownloadRetries, p.Size)
            /\ did' = [NoDid EXCEPT !.download = TRUE]
            /\ pc' = "Download"
            /\ UNCHANGED ret
    /\ UNCHANGED <<pair, androidNames, asset, parsed, caller, cfg, p, fs, dirs>>

\* utils.Download(url, maxRetries, size): one attempt of its loop. It returns
\* the body, no file.
Download_Attempt ==
    /\ pc = "Download"
    /\ \E o \in Outcomes :
          LET j == Attempt(dq, o, Empty) IN
          /\ dq' = j
          /\ pc' = IF Finished(j) THEN "Download_ret" ELSE "Download"
    /\ UNCHANGED <<pair, androidNames, asset, parsed, caller, cfg, p, filePath,
                   deferred, fs, dirs, http, ret, calls, p0, did>>

\* utils.Download returned an error: CreateMirror wraps and returns it.
GappsCreateMirror_DownloadFailed ==
    /\ caller = "gapps"
    /\ pc = "Download_ret"
    /\ dq.err # Nil
    /\ ret' = Wrap(dq.err, "unable to read file body")
    /\ pc' = "idle"
    /\ UNCHANGED <<pair, androidNames, asset, parsed, caller, cfg, p, dq, filePath,
                   deferred, fs, dirs, http, calls, p0, did>>

\* utils.CreateFile("", body, true) writes the body to a temporary file, which
\* is registered for removal at function exit; its failure is returned.
GappsCreateMirror_CreateFile ==
    /\ caller = "gapps"
    /\ pc = "Download_ret"
    /\ dq.err = Nil
    /\ \E ok \in BOOLEAN :
          IF ok
          THEN /\ filePath' = TmpName(calls)
               /\ fs' = fs \cup {TmpName(calls)}
               /\ deferred' = DeferRemove(deferred, TmpName(calls))
               /\ dq' = [Release(dq) EXCEPT !.path = TmpName(calls)]
               /\ pc' = "upload"
               /\ ret' = ret
          ELSE /\ ret' = <<"unable to create temp file", "create">>
               /\ dq' = Release(dq)
               /\ pc' = "idle"
               /\ UNCHANGED <<filePath, fs, deferred>>
    /\ UNCHANGED <<pair, androidNames, asset, parsed, caller, cfg, p, dirs, http,
                   calls, p0, did>>

\* The rest of the older CreateMirror: the upload to uploadURL, then the
\* deferred removal and the return.
GappsCreateMirror_Upload ==
    /\ caller = "gapps"
    /\ pc = "upload"
    /\ \E o \in UploadOutcomes, st \in Statuses, b \in Bodies :
          LET u == Upload(Sprintf(uploadURL, p.Name), filePath,
                          IF filePath \in fs THEN o ELSE "open", st, b,
                          "unable to open temp file")
          IN  /\ http' = u.http
              /\ did' = [did EXCEPT !.put = u.http.sent]
              /\ ret' = u.err
              /\ p' = IF u.err = Nil
                      THEN [p EXCEPT !.MirrorURL = u.http.body]
                      ELSE p
    /\ fs' = RunDeferred(fs, deferred)
    /\ pc' = "idle"
    /\ UNCHANGED <<pair, androidNames, asset, parsed, caller, cfg, dq, filePath,
                   deferred, dirs, calls, p0>>

\* ------------------------------------------------------------ specification
NoConfig ==
    [local_path |-> Empty, local_url |-> Empty, remote_url |-> Empty,
     prefix |-> gappsPrefix, time_format |-> TimeFormat]

InitStorage ==
    /\ caller = "storage"
    /\ cfg \in Configs
    /\ p \in StoragePackages
    /\ pc = "idle"
    /\ dq = NoJob

InitGapps ==
    /\ caller = "gapps"
    /\ cfg = NoConfig
    /\ p \in GappsPackages
    /\ pc = "idle"
    /\ dq = NoJob

\* A call of AddMultiple by any caller of the queue, with its own arguments.
InitQueue ==
    /\ caller = "queue"
    /\ cfg = NoConfig
    /\ p \in {q \in StoragePackages : q.LocalURL = Empty /\ q.RemoteURL = Empty}
    /\ pc = "AddMultiple"
    /\ \E n \in 1..MaxRetriesArg, size \in {0, Size0} :
          dq = NewJob(p.OriginURL, p.MD5, n, size)

\* No asset is being parsed.
NoAsset ==
    [zip |-> [Name |-> Empty, URL |-> Empty, Size |-> 0], md5 |-> Empty]

NotParsed == [pkg |-> NilPackage, err |-> Nil, md5err |-> Nil]

Init ==
    /\ InitStorage \/ InitGapps \/ InitQueue
    /\ pair = NoPair
    /\ androidNames = AndroidDotted
    /\ asset = NoAsset
    /\ parsed = NotParsed
    /\ filePath = Empty
    /\ deferred = {}
    /\ fs = {}
    /\ dirs = {}
    /\ http = NoHTTP
    /\ ret = Nil
    /\ calls = 0
    /\ p0 = p
    /\ did = NoDid

Next ==
    \/ CreateMirror_Entry
    \/ AddMultiple_Attempt
    \/ CreateMirror_DownloadFailed
    \/ CreateMirror_Place
    \/ CreateMirror_Remote
    \/ GappsCreateMirror_Entry
    \/ Download_Attempt
    \/ GappsCreateMirror_DownloadFailed
    \/ GappsCreateMirror_CreateFile
    \/ GappsCreateMirror_Upload

Spec == Init /\ [][Next]_vars

\* ------------------------------------------------- specification: parsing
\* <prefix>-<platform>-<android>-<variant>-<date>.<ext>
BuildName(prefix, platform, android, variant, date, ext) ==
    prefix \o gappsSeparator \o platform \o gappsSeparator \o android
        \o gappsSeparator \o variant \o gappsSeparator \o date \o <<".">> \o ext

Zip == <<"z", "i", "p">>

ValidDates ==
    {<<"2", "0", "2", "3", "0", "1", "0", "1">>,
     <<"2", "0", "2", "4", "0", "2", "2", "9">>}

\* The tokens release file names are built from here: the canonical strings
\* of both tables, and tokens no table knows.
PlatformTokens == {PlatformName[x] : x \in Platforms} \cup {<<"m", "i", "p", "s">>}

AndroidTokens ==
    {AndroidDotted[x] : x \in Androids} \cup {AndroidPlain[x] : x \in Androids}
        \cup {<<"1", "2">>}

VariantTokens == {VariantName[x] : x \in Variants} \cup {<<"m", "a", "x">>}

DateTokens ==
    ValidDates \cup {<<"2", "0", "2", "3", "0", "2", "2", "9">>,
                     <<"2", "0", "2", "3", "0", "1", "1">>}

ExtTokens == {Zip, <<"m", "d", "5">>}

\* Names of other shapes: no prefix, a token missing, a second dot in the
\* version, a dot inside the date.
OddNames ==
    {TrimPrefix(BuildName(gappsPrefix, PlatformName["arm64"], AndroidDotted["11.0"],
                          VariantName["pico"], Date0, Zip),
                gappsPrefix \o gappsSeparator),
     gappsPrefix \o gappsSeparator \o PlatformName["arm64"] \o gappsSeparator
        \o AndroidDotted["11.0"] \o gappsSeparator \o Date0 \o <<".">> \o Zip,
     BuildName(gappsPrefix, PlatformName["arm"], <<"1", ".", "1", ".", "0">>,
               VariantName["nano"], Date0, Zip),
     BuildName(gappsPrefix, PlatformName["arm"], AndroidPlain["11.0"],
               VariantName["nano"], <<"2", "0", "2", "3", ".", "0", "1", "0", "1">>,
               Zip),
     Empty}

AssetNames ==
    {BuildName(gappsPrefix, a, b, c, d, e) :
        a \in PlatformTokens, b \in AndroidTokens, c \in VariantTokens,
        d \in DateTokens, e \in ExtTokens} \cup OddNames

\* The checksum file: "<sum>  <name>", or empty.
MD5Files == {GoodSum \o <<" ", " ", "f">>, Empty}

Assets ==
    [zip : [Name : AssetNames, URL : {Origin0, Empty}, Size : {Size0}],
     md5 : MD5Files]

InitParse ==
    /\ caller \in {"storage", "gapps"}
    /\ pair = NoPair
    /\ cfg = NoConfig
    /\ androidNames \in AndroidTables
    /\ asset \in Assets
    /\ parsed = NotParsed
    /\ pc = "form"
    /\ p = NilPackage
    /\ p0 = NilPackage
    /\ dq = NoJob
    /\ filePath = Empty
    /\ deferred = {}
    /\ fs = {}
    /\ dirs = {}
    /\ http = NoHTTP
    /\ ret = Nil
    /\ calls = 0
    /\ did = NoDid

\* formPackage of the storage package is called on the asset pair.
formPackage_Run ==
    /\ caller = "storage"
    /\ pc = "form"
    /\ \E o \in MD5Outcomes :
          LET m == getMD5(asset.md5, o)
              r == formPackage("storage", cfg.prefix, cfg.time_format,
                               androidNames, asset.zip, m)
          IN  parsed' = [pkg |-> r.pkg, err |-> r.err, md5err |-> m.err]
    /\ pc' = "formed"
    /\ UNCHANGED <<pair, androidNames, asset, caller, cfg, p, dq, filePath, deferred,
                   fs, dirs, http, ret, calls, p0, did>>

\* formPackage of the older gapps package is called on the asset pair.
Gapps_formPackage_Run ==
    /\ caller = "gapps"
    /\ pc = "form"
    /\ \E o \in {"ok", "download"} :
          LET m == Gapps_getMD5(asset.md5, o)
              r == formPackage("gapps", gappsPrefix, TimeFormat, androidNames,
                               asset.zip, m)
          IN  parsed' = [pkg |-> r.pkg, err |-> r.err, md5err |-> m.err]
    /\ pc' = "formed"
    /\ UNCHANGED <<pair, androidNames, asset, caller, cfg, p, dq, filePath, deferred,
                   fs, dirs, http, ret, calls, p0, did>>

NextParse ==
    \/ formPackage_Run
    \/ Gapps_formPackage_Run

SpecParse == InitParse /\ [][NextParse]_vars

\* ------------------------------------------- specification: two callers
\* Two goroutines call CreateMirror, each on its own Package, with the same
\* configuration and the same disk. What each call meets on its way (how its
\* download, its move and its upload go) is fixed when it starts, so that
\* the interleaved run and the sequential runs can be compared.
Name1 ==
    BuildName(gappsPrefix, PlatformName["arm64"], AndroidDotted["11.0"],
              VariantName["nano"], Date0, Zip)

PairPackages ==
    {<<a, b>> \in StoragePackages \X
                  [Name : {Name1}, Date : {Date0}, OriginURL : {Origin0},
                   LocalURL : {Empty}, RemoteURL : {Empty, OldRemote},
                   MD5 : {GoodSum}, Size : {Size0},
                   Platform : {"arm64"}, Android : {"11.0"},
                   Variant : {"nano"}] :
        a.LocalURL = Empty /\ a.RemoteURL = Empty /\ a.MD5 = GoodSum}

\* How the steps of one call go: every download attempt, the move, and the
\* upload with the status it is answered with.
Envs ==
    {e \in [dl : {"good", "neterr"}, mv : MoveOutcomes, up : {"do", "ok"},
            status : {StatusOK, 500}] :
        e.up = "do" => e.status = StatusOK}

\* A call that has not started: its Package, its locals, what it will meet,
\* the name of its temporary file and the body its upload is answered with.
InitProc(pkg, env, tmp, body) ==
    [p |-> pkg, p0 |-> pkg, pc |-> "start", dq |-> NoJob, filePath |-> Empty,
     deferred |-> {}, http |-> NoHTTP, ret |-> Nil, did |-> NoDid,
     env |-> env, tmp |-> tmp, body |-> body]

\* AddMultiple run to its end, every attempt ending the same way.
RECURSIVE RunJob(_, _, _)
RunJob(job, outcome, tmp) ==
    LET j == Attempt(job, outcome, tmp)
    IN  IF Finished(j) THEN j ELSE RunJob(j, outcome, tmp)

\* CreateMirror up to the return of AddMultiple: the early return, or the
\* download and the return of its error.
StartStep(c, st, files, ds) ==
    IF AlreadyMirrored(c, st.p)
    THEN [st |-> [st EXCEPT !.ret = Nil, !.pc = "done"],
          fs |-> files, dirs |-> ds]
    ELSE LET j == RunJob(NewJob(st.p.OriginURL, ExpectedSum(st.p),
                                DownloadRetries, st.p.Size),
                         st.env.dl, st.tmp)
             s1 == [st EXCEPT !.dq = j, !.did.download = TRUE]
         IN  IF j.err # Nil
             THEN [st |-> [s1 EXCEPT
                             !.ret = Wrap(j.err, "unable to read file body"),
                             !.pc = "done"],
                   fs |-> files, dirs |-> ds]
             ELSE [st |-> [s1 EXCEPT !.pc = "AddMultiple_ret"],
                   fs |-> files \cup {j.path}, dirs |-> ds]

\* CreateMirror from the download to the upload: the move and LocalURL, or
\* the deferred removal.
PlaceStep(c, st, files, ds) ==
    IF c.local_path # Empty
    THEN LET m == move(st.p, st.dq.path, c.local_path, st.env.mv, files, ds)
             s1 == [st EXCEPT !.did.move = TRUE, !.did.placed = m.renamed,
                              !.filePath = m.path,
                              !.deferred = Registered(c.local_path, @, m.path),
                              !.dq = Release(@)]
         IN  IF m.err # Nil
             THEN [st |-> [s1 EXCEPT
                             !.ret = Wrap(m.err,
                                          "unable to move the file to storage"),
                             !.pc = "done"],
                   fs |-> m.fs, dirs |-> m.dirs]
             ELSE [st |-> [s1 EXCEPT
                             !.p = IF c.local_url # Empty
                                   THEN SetLocalURL(@,
                                          Sprintf(c.local_url,
                                                  TrimPrefix(m.path,
                                                             c.local_path)))
                                   ELSE @,
                             !.pc = "remote"],
                   fs |-> m.fs, dirs |-> m.dirs]
    ELSE [st |-> [st EXCEPT !.filePath = st.dq.path,
                            !.deferred = Registered(c.local_path, @,
                                                    st.dq.path),
                            !.dq = Release(@),
                            !.pc = "remote"],
          fs |-> files, dirs |-> ds]

\* The rest of CreateMirror: the upload, the deferred removals, the return.
RemoteStep(c, st, files, ds) ==
    LET u == IF c.remote_url # Empty
             THEN Upload(Sprintf(c.remote_url, st.p.Name), st.filePath,
                         IF st.filePath \in files THEN st.env.up ELSE "open",
                         st.env.status, st.body, "unable to create temp file")
             ELSE [http |-> st.http, err |-> Nil]
    IN  [st |-> [st EXCEPT
                   !.http = u.http,
                   !.did.put = u.http.sent,
                   !.ret = u.err,
                   !.p = IF c.remote_url # Empty /\ u.err = Nil
                         THEN [@ EXCEPT !.RemoteURL = u.http.body]
                         ELSE @,
                   !.pc = "done"],
         fs |-> RunDeferred(files, st.deferred), dirs |-> ds]

\* The call `i` of the pair takes the step `r`.
PairTakes(i, r) ==
    pair' = [proc |-> [pair.proc EXCEPT ![i] = r.st],
             fs |-> r.fs, dirs |-> r.dirs]

Pair_Download ==
    /\ caller = "pair"
    /\ \E i \in 1..2 :
          /\ pair.proc[i].pc = "start"
          /\ PairTakes(i, StartStep(cfg, pair.proc[i], pair.fs, pair.dirs))
    /\ UNCHANGED <<caller, cfg, p, pc, dq, filePath, deferred, fs, dirs, http,
                   ret, calls, p0, did, androidNames, asset, parsed>>

Pair_Place ==
    /\ caller = "pair"
    /\ \E i \in 1..2 :
          /\ pair.proc[i].pc = "AddMultiple_ret"
          /\ PairTakes(i, PlaceStep(cfg, pair.proc[i], pair.fs, pair.dirs))
    /\ UNCHANGED <<caller, cfg, p, pc, dq, filePath, deferred, fs, dirs, http,
                   ret, calls, p0, did, androidNames, asset, parsed>>

Pair_Remote ==
    /\ caller = "pair"
    /\ \E i \in 1..2 :
          /\ pair.proc[i].pc = "remote"
          /\ PairTakes(i, RemoteStep(cfg, pair.proc[i], pair.fs, pair.dirs))
    /\ UNCHANGED <<caller, cfg, p, pc, dq, filePath, deferred, fs, dirs, http,
                   ret, calls, p0, did, androidNames, asset, parsed>>

InitPair ==
    /\ caller = "pair"
    /\ cfg \in Configs
    /\ \E pkgs \in PairPackages, e1 \in Envs, e2 \in Envs :
          pair = [proc |-> <<InitProc(pkgs[1], e1, TmpName(1), <<"r", ":", "1">>),
                             InitProc(pkgs[2], e2, TmpName(2), <<"r", ":", "2">>)>>,
                  fs |-> {}, dirs |-> {}]
    /\ p = NilPackage
    /\ p0 = NilPackage
    /\ pc = "idle"
    /\ dq = NoJob
    /\ androidNames = AndroidDotted
    /\ asset = NoAsset
    /\ parsed = NotParsed
    /\ filePath = Empty
    /\ deferred = {}
    /\ fs = {}
    /\ dirs = {}
    /\ http = NoHTTP
    /\ ret = Nil
    /\ calls = 0
    /\ did = NoDid

NextPair ==
    \/ Pair_Download
    \/ Pair_Place
    \/ Pair_Remote

SpecPair == InitPair /\ [][NextPair]_vars

\* ------------------------------------------------------------------ claims
\* A CreateMirror call has returned and no other is running.
Returned == caller \in {"storage", "gapps"} /\ pc = "idle" /\ calls > 0

\* Every tier the configuration names has its URL in the Package.
AllTiers(c, pkg) ==
    /\ c.local_url # Empty => pkg.LocalURL # Empty
    /\ c.remote_url # Empty => pkg.RemoteURL # Empty

SomeTier(c) == c.local_url # Empty \/ c.remote_url # Empty

\* The call did nothing: no download, no move, no PUT, no field changed.
NoOp ==
    /\ pc = "idle"
    /\ ret = Nil
    /\ did = NoDid
    /\ ~http.sent
    /\ p = p0

\* The URL field the upload fills in.
MirrorField(pkg) == IF caller = "gapps" THEN pkg.MirrorURL ELSE pkg.RemoteURL

\* C1: a CreateMirror call on a Package whose URL is non-empty for every
\* configured tier (MirrorURL non-empty in the older version) returns nil,
\* downloads nothing, moves nothing, sends no PUT and changes no field; this
\* holds of each call of a sequence.
C1_Idempotent ==
    /\ (caller = "storage" /\ calls > 0 /\ AllTiers(cfg, p0)) => NoOp
    /\ (caller = "gapps" /\ calls > 0 /\ p0.MirrorURL # Empty) => NoOp

\* C1, for configurations that name at least one tier: this part holds.
C1_WithConfiguredTier ==
    /\ (caller = "storage" /\ calls > 0 /\ SomeTier(cfg) /\ AllTiers(cfg, p0))
          => NoOp
    /\ (caller = "gapps" /\ calls > 0 /\ p0.MirrorURL # Empty) => NoOp

\* C2: whenever CreateMirror has just returned nil, every configured tier has
\* a populated URL.
C2_NilOnlyWhenAllTiers ==
    (caller = "storage" /\ Returned /\ ret = Nil) => AllTiers(cfg, p)

\* C3: with gapps.local_url and gapps.remote_url both unset, CreateMirror
\* returns success at once: it does not call AddMultiple and sends no request.
C3_NoTierNoNetwork ==
    (caller = "storage" /\ calls > 0 /\ ~SomeTier(cfg)) =>
        /\ pc = "idle"
        /\ ret = Nil
        /\ ~did.download
        /\ ~http.sent

\* C4: a CreateMirror call made after a call that returned an error repeats
\* the download step (which is what lets retries reach the state where every
\* configured tier is populated).
C4_RetryRepeatsDownload ==
    [][(caller = "storage" /\ pc = "idle" /\ calls > 0 /\ ret # Nil
            /\ calls' = calls + 1)
        => (pc' = "AddMultiple" /\ did'.download)]_vars

\* C5: when the download step fails, CreateMirror returns the error wrapped as
\* "unable to read file body", no Package field is changed, no file is moved
\* into local storage, no temporary file is left and no PUT is sent.
C5_DownloadFailureWritesNothing ==
    (caller \in {"storage", "gapps"} /\ dq.err # Nil
        /\ pc \in {"idle", "AddMultiple_ret", "Download_ret"}) =>
        /\ p = p0
        /\ ~did.move /\ ~did.placed
        /\ ~did.put /\ http = NoHTTP
        /\ TmpName(calls) \notin fs
        /\ pc = "idle" => ret = <<"unable to read file body">> \o dq.err

C5_Witness ==
    /\ caller = "storage" /\ pc = "idle" /\ dq.err # Nil
    /\ cfg.local_path # Empty /\ cfg.remote_url # Empty
    /\ ret # Nil

\* C6: with gapps.remote_url configured (always, in the older version),
\* RemoteURL (MirrorURL) is assigned if and only if the PUT was answered 200 OK
\* and the body was read, and is then the body verbatim; when the upload ends
\* any other way CreateMirror returns an error and the field keeps its value.
C6_RemoteUploadOutcome ==
    (Returned /\ (caller = "storage" => cfg.remote_url # Empty)) =>
        LET ok == http.sent /\ http.status = 200 /\ http.outcome = "ok" IN
        /\ (MirrorField(p) # MirrorField(p0)) <=> ok
        /\ ok => (MirrorField(p) = http.body /\ ret = Nil)
        /\ (http.outcome # "none" /\ ~ok) =>
              (ret # Nil /\ MirrorField(p) = MirrorField(p0))

C6_Witness ==
    /\ Returned /\ caller = "storage" /\ cfg.remote_url # Empty
    /\ http.sent /\ http.status = 200 /\ http.outcome = "ok"
    /\ p.RemoteURL = http.body /\ p0.RemoteURL = Empty

\* The download of the last call succeeded and left a temporary file.
DownloadedOK == dq.err = Nil /\ dq.path # Empty

\* C7: whenever the download succeeded and no local placement occurred, the
\* temporary file no longer exists when CreateMirror returns.
C7_TempRemovedUnlessPlaced ==
    (Returned /\ DownloadedOK /\ ~did.placed) => dq.path \notin fs

\* C7 (amended): whenever the download succeeded and gapps.local_path is unset
\* (in the older version: the temporary file was created), the temporary file
\* no longer exists when CreateMirror returns, on every exit path; when
\* gapps.local_path is set and the move fails before the rename, CreateMirror
\* returns the error and the temporary file is still there.
C7_TempRemovedWithoutLocalPath ==
    /\ (Returned /\ DownloadedOK /\ (caller = "storage" => cfg.local_path = Empty))
          => dq.path \notin fs
    /\ (Returned /\ DownloadedOK /\ caller = "storage" /\ cfg.local_path # Empty
            /\ ~did.placed)
          => (dq.path \in fs /\ ret # Nil)

C7_Witness ==
    /\ Returned /\ DownloadedOK /\ caller = "storage"
    /\ cfg.local_path = Empty /\ cfg.remote_url # Empty
    /\ http.outcome = "readall" /\ ret # Nil
    /\ dq.path \notin fs

\* C8: a download that fails on every attempt makes exactly maxRetries
\* attempts and then returns the last error; the download CreateMirror starts
\* has the budget 20, so it fails after exactly 20 attempts.
C8_RetryExhaustion ==
    /\ dq.attempts <= dq.maxRetries
    /\ pc \in {"AddMultiple", "Download"} => dq.attempts < dq.maxRetries
    /\ (dq.err # Nil /\ pc \notin {"AddMultiple", "Download"}) =>
          /\ dq.attempts = dq.maxRetries
          /\ dq.err = AttemptError(dq.sum, dq.size, dq.last)
    /\ (caller \in {"storage", "gapps"} /\ dq.err # Nil /\ pc = "idle") =>
          (dq.attempts = 20 /\ ret # Nil)

C8_Witness ==
    /\ caller = "storage" /\ pc = "idle" /\ calls = 1
    /\ dq.err # Nil /\ dq.attempts = 20 /\ ret # Nil

\* C9: with a non-empty expected checksum a checksum mismatch is retried: a
\* corrupted first payload and a correct second one make AddMultiple succeed
\* with the correct file when maxRetries >= 2 and fail when maxRetries = 1; a
\* file whose checksum differs is never returned; CreateMirror passes the
\* Package's MD5 as the expected checksum.
C9_ChecksumRetry ==
    LET running == pc = "AddMultiple"
        returned == pc = "AddMultiple_ret"
        corruptFirst == dq.sum # Empty /\ dq.first = "corrupt"
    IN  /\ (caller = "storage" /\ (running \/ returned)) => dq.sum = p.MD5
        /\ (returned /\ dq.sum # Empty /\ dq.err = Nil) =>
              (dq.payload = "good" /\ dq.path \in fs)
        /\ ((running \/ returned) /\ corruptFirst /\ dq.maxRetries = 1) =>
              (returned /\ dq.err = <<"checksum mismatch">> /\ dq.path = Empty)
        /\ ((running \/ returned) /\ corruptFirst /\ dq.maxRetries >= 2
                /\ dq.attempts = 1) => running
        /\ ((running \/ returned) /\ corruptFirst /\ dq.attempts = 2
                /\ dq.last = "good") =>
              (returned /\ dq.err = Nil /\ dq.payload = "good")

C9_Witness ==
    /\ pc = "AddMultiple_ret" /\ dq.sum # Empty /\ dq.first = "corrupt"
    /\ dq.attempts = 2 /\ dq.maxRetries >= 2
    /\ dq.err = Nil /\ dq.payload = "good"

\* parseAsset was called (the checksum was fetched) and has returned.
Parsed == pc = "formed" /\ parsed.md5err = Nil

\* The asset's name is the file name built from the canonical strings of the
\* values a, b, c and the date d.
BuiltFrom(a, b, c, d) ==
    asset.zip.Name =
        BuildName(cfg.prefix, PlatformName[a], androidNames[b], VariantName[c],
                  d, Zip)

\* C10: for every file name <prefix>-<platform>-<android>-<variant>-<date>.zip
\* built from the canonical strings of a Platform, an Android and a Variant
\* and a valid date, parseAsset succeeds and returns the Package with exactly
\* that Platform, Android, Variant and Date, and the file name as its Name.
C10_RoundTrip ==
    Parsed =>
        \A a \in Platforms, b \in Androids, c \in Variants, d \in ValidDates :
            BuiltFrom(a, b, c, d) =>
                /\ parsed.err = Nil
                /\ parsed.pkg # NilPackage
                /\ parsed.pkg.Platform = a
                /\ parsed.pkg.Android = b
                /\ parsed.pkg.Variant = c
                /\ parsed.pkg.Date = d
                /\ parsed.pkg.Name = asset.zip.Name

\* Some file names do parse: the ones that write the version with a dot where
\* the enumeration's canonical string has none.
SomeNameParses == Parsed /\ parsed.err = Nil

\* The tokens the parser reads off the asset's name: the name without the
\* prefix, split at the dots, and the first two segments split at the
\* separator.
NameSegments ==
    Split(TrimPrefix(asset.zip.Name, cfg.prefix \o gappsSeparator), <<".">>)

NameTokens == Split(NameSegments[1] \o NameSegments[2], gappsSeparator)

\* The file name is malformed: not three dot-separated segments, a last
\* segment other than zip, not four tokens, a platform, android or variant
\* token no enumeration value is written as, or a date that is no day of the
\* calendar in the layout 20060102.
MalformedName ==
    \/ Len(NameSegments) # 3
    \/ NameSegments[3] # Zip
    \/ Len(NameTokens) # 4
    \/ NameTokens[1] \notin {PlatformName[x] : x \in Platforms}
    \/ NameTokens[2] \notin {androidNames[x] : x \in Androids}
    \/ NameTokens[3] \notin {VariantName[x] : x \in Variants}
    \/ NameTokens[4] \notin ValidDates

\* C11: for a malformed file name parseAsset (and so formPackage) returns an
\* error and the nil Package, never success; and whenever an error is
\* returned the Package returned with it is nil, never a partly filled one.
C11_MalformedRejected ==
    /\ pc = "formed" => (parsed.err # Nil => parsed.pkg = NilPackage)
    /\ (Parsed /\ MalformedName) =>
          (parsed.err # Nil /\ parsed.pkg = NilPackage)

\* A name whose only fault is its date, 29 February 2023, was rejected.
C11_Witness ==
    /\ Parsed
    /\ asset.zip.Name =
          BuildName(cfg.prefix, PlatformName["arm64"], AndroidDotted["11.0"],
                    VariantName["pico"],
                    <<"2", "0", "2", "3", "0", "2", "2", "9">>, Zip)
    /\ MalformedName
    /\ Len(parsed.err) >= 2 /\ parsed.err[2] = "unable to parse time"
    /\ parsed.pkg = NilPackage

\* The move of the current call succeeded: filePath is the path it returned.
Moved == caller = "storage" /\ did.move /\ filePath # Empty

\* A directory path without its closing slash.
CleanDir(dir) ==
    IF dir # Empty /\ dir[Len(dir)] = "/" THEN SubSeq(dir, 1, Len(dir) - 1)
    ELSE dir

\* <local_path>/<Platform>/<Date>/<Name>
StorageLayout(root, pkg) ==
    CleanDir(root) \o <<"/">> \o PlatformName[pkg.Platform] \o <<"/">>
        \o pkg.Date \o <<"/">> \o pkg.Name

\* C12: the path move returns on success is <local_path>/<Platform>/<Date>/
\* <Name>, a function of these four only (/data/arm64/20230101/<Name> for
\* arm64, 20230101 and the storage root /data), and the relative path put
\* into the local URL template is that path without the local_path prefix.
C12_StoragePath ==
    Moved =>
        /\ filePath = StorageLayout(cfg.local_path, p)
        /\ cfg.local_url # Empty =>
              p.LocalURL =
                  Sprintf(cfg.local_url, TrimPrefix(filePath, cfg.local_path))

\* C12, for a storage root written with its closing slash: this part holds,
\* and for /data/ the path is the one the claim spells out.
C12_SlashTerminated ==
    (Moved /\ cfg.local_path[Len(cfg.local_path)] = "/") =>
        /\ filePath = StorageLayout(cfg.local_path, p)
        /\ filePath =
              <<"/", "d", "a", "t", "a", "/", "a", "r", "m", "6", "4", "/">>
                  \o Date0 \o <<"/">> \o Name0
        /\ cfg.local_url # Empty =>
              p.LocalURL =
                  Sprintf(cfg.local_url, TrimPrefix(filePath, cfg.local_path))

\* C14: within one CreateMirror call the move is attempted only after the
\* download has returned successfully; the PUT is sent only after the
\* download succeeded and, when gapps.local_path is set, only after the move
\* succeeded; and the file the PUT sends is the relocated file when a move was
\* performed, the temporary file otherwise.
C14_StepOrder ==
    caller = "storage" =>
        /\ pc = "remote" => (did.download /\ DownloadedOK)
        /\ did.move =>
              /\ did.download /\ DownloadedOK
              /\ pc \in {"remote", "idle"}
              /\ cfg.local_path # Empty
        /\ http.sent =>
              /\ did.download /\ DownloadedOK
              /\ pc = "idle"
              /\ http.file = filePath
              /\ IF cfg.local_path # Empty
                 THEN /\ Moved /\ did.placed
                      /\ http.file # dq.path
                      /\ http.file \in fs
                      /\ dq.path \notin fs
                 ELSE /\ ~did.move
                      /\ http.file = dq.path
                      /\ http.file = TmpName(calls)

\* A PUT that sent the relocated file, after the download and the move.
C14_Witness ==
    /\ caller = "storage" /\ pc = "idle"
    /\ cfg.local_path # Empty /\ cfg.remote_url # Empty
    /\ did.download /\ did.move /\ did.placed
    /\ http.sent /\ http.file = filePath /\ http.file \in fs
    /\ http.file # TmpName(calls)

\* The fields CreateMirror is not to touch are the same in both Packages.
SameIdentity(a, b) ==
    /\ a.Name = b.Name /\ a.Date = b.Date /\ a.OriginURL = b.OriginURL
    /\ a.MD5 = b.MD5 /\ a.Size = b.Size /\ a.Platform = b.Platform
    /\ a.Android = b.Android /\ a.Variant = b.Variant

\* A step keeps the identity fields, and changes a URL field only in the one
\* step of the call that writes it.
FrameStep ==
    caller \in {"storage", "gapps"} =>
        /\ SameIdentity(p, p')
        /\ DOMAIN p' = DOMAIN p
        /\ (caller = "storage" /\ p'.LocalURL # p.LocalURL) =>
              (pc = "AddMultiple_ret" /\ p.LocalURL = p0.LocalURL)
        /\ (caller = "storage" /\ p'.RemoteURL # p.RemoteURL) =>
              (pc = "remote" /\ p.RemoteURL = p0.RemoteURL)
        /\ (caller = "gapps" /\ p'.MirrorURL # p.MirrorURL) =>
              (pc = "upload" /\ p.MirrorURL = p0.MirrorURL)

\* C15: no step of any CreateMirror call changes Name, Date, OriginURL, MD5,
\* Size, Platform, Android or Variant: only LocalURL and RemoteURL (MirrorURL
\* in the older version) can change, and each is written at most once in a
\* call: a step that changes one finds it as it was when the call was entered.
C15_Frame == [][FrameStep]_vars

\* A call that wrote both URL fields and returned.
C15_Witness ==
    /\ caller = "storage" /\ pc = "idle" /\ calls > 0
    /\ p.LocalURL # p0.LocalURL /\ p.RemoteURL # p0.RemoteURL
    /\ SameIdentity(p, p0)

\* The step moves a file into local storage.
PlacementStep == ~did.move /\ did'.move

\* The step sends a PUT.
PutStep == ~http.sent /\ http'.sent

\* Under the configuration of the behaviour, a URL field changes only to a
\* non-empty value and only when its tier is configured; and once the field
\* of a configured tier is non-empty, no step changes it, moves a file (local
\* tier) or sends a PUT (remote tier, and the older version's MirrorURL).
WriteOnceStep ==
    /\ cfg' = cfg
    /\ caller = "storage" =>
          /\ p'.LocalURL # p.LocalURL =>
                (cfg.local_url # Empty /\ p'.LocalURL # Empty)
          /\ p'.RemoteURL # p.RemoteURL =>
                (cfg.remote_url # Empty /\ p'.RemoteURL # Empty)
          /\ (cfg.local_url # Empty /\ p.LocalURL # Empty) =>
                (p'.LocalURL = p.LocalURL /\ ~PlacementStep)
          /\ (cfg.remote_url # Empty /\ p.RemoteURL # Empty) =>
                (p'.RemoteURL = p.RemoteURL /\ ~PutStep)
          /\ (PutStep /\ http'.outcome = "ok" /\ http'.status = StatusOK) =>
                (p.RemoteURL = Empty /\ p'.RemoteURL # Empty)
    /\ caller = "gapps" =>
          /\ p.MirrorURL # Empty => (p'.MirrorURL = p.MirrorURL /\ ~PutStep)
          /\ (PutStep /\ http'.outcome = "ok" /\ http'.status = StatusOK) =>
                (p.MirrorURL = Empty /\ p'.MirrorURL # Empty)

C17_NameAndOrigin ==
    (pc = "formed" /\ parsed.pkg # NilPackage) =>
        /\ parsed.pkg.Name # Empty
        /\ parsed.pkg.OriginURL # Empty

\* C17, the Name: this part holds, a name that parses is not empty.
C17_NameOnly ==
    (pc = "formed" /\ parsed.pkg # NilPackage) =>
        (parsed.pkg.Name # Empty /\ parsed.pkg.Name = asset.zip.Name)

\* The temporary files of the download queue.
TempFiles == {TmpName(n) : n \in 0..(MaxCalls + 1)}

\* LocalURL changes only in a step of a call configured with gapps.local_path
\* and gapps.local_url in which move renamed the file and returned no error;
\* and no step removes a file that stands in local storage.
LocalTierStep ==
    caller = "storage" =>
        /\ p'.LocalURL # p.LocalURL =>
              /\ cfg.local_path # Empty /\ cfg.local_url # Empty
              /\ PlacementStep /\ did'.placed
              /\ filePath' # Empty /\ filePath' \in fs'
              /\ dq.path \notin fs'
              /\ pc' = "remote" /\ ret' = ret
        /\ \A f \in fs \ TempFiles : f \in fs'

\* A LocalURL a call of the behaviour wrote names a file that is in local
\* storage; and the file a call relocated is there when the call has
\* returned, with an error (the upload failed) as well as without.
LocalTierState ==
    caller = "storage" =>
        /\ p.LocalURL \notin {Empty, OldLocal} =>
              /\ cfg.local_path # Empty /\ cfg.local_url # Empty
              /\ \E f \in fs \ TempFiles :
                    p.LocalURL =
                        Sprintf(cfg.local_url, TrimPrefix(f, cfg.local_path))
        /\ (pc = "idle" /\ did.placed) =>
              /\ fs \ TempFiles # {}
              /\ filePath # Empty => filePath \in fs \ TempFiles

\* C18: LocalURL is non-empty only if, in an earlier CreateMirror call with
\* gapps.local_path and gapps.local_url both configured, the file was renamed
\* to its storage path and its permissions were set; and CreateMirror never
\* deletes a file it has relocated, so the file is still in local storage
\* when the remote upload fails afterwards.
C18_LocalTier == [][LocalTierStep]_vars /\ []LocalTierState

\* The upload failed after the file had been relocated and LocalURL written:
\* the call returned the error and the file is in local storage.
C18_Witness ==
    /\ caller = "storage" /\ pc = "idle" /\ ret # Nil
    /\ did.placed /\ filePath \in fs
    /\ p.LocalURL # Empty /\ p0.LocalURL = Empty
    /\ http.outcome # "none"

\* One CreateMirror call run from its start to its return, alone on the disk.
RECURSIVE RunCall(_, _, _, _)
RunCall(c, st, files, ds) ==
    IF st.pc = "done" THEN [st |-> st, fs |-> files, dirs |-> ds]
    ELSE LET r == CASE st.pc = "start" -> StartStep(c, st, files, ds)
                    [] st.pc = "AddMultiple_ret" -> PlaceStep(c, st, files, ds)
                    [] OTHER -> RemoteStep(c, st, files, ds)
         IN  RunCall(c, r.st, r.fs, r.dirs)

\* The two calls one after the other, on a disk that starts empty.
Sequential(c, first, second) ==
    LET a == RunCall(c, first, {}, {})
        b == RunCall(c, second, a.fs, a.dirs)
    IN  [first |-> a.st, second |-> b.st, fs |-> b.fs, dirs |-> b.dirs]

\* The call `i` of the pair as it was before it started.
Fresh(i) ==
    InitProc(pair.proc[i].p0, pair.proc[i].env, pair.proc[i].tmp,
             pair.proc[i].body)

PairDone ==
    caller = "pair" /\ \A i \in 1..2 : pair.proc[i].pc = "done"

\* Both calls have returned: their Packages, return values and locals and
\* the disk are what the two calls leave when run one after the other, in
\* either order.
SameAsSequential ==
    PairDone =>
        LET s12 == Sequential(cfg, Fresh(1), Fresh(2))
            s21 == Sequential(cfg, Fresh(2), Fresh(1))
        IN  /\ pair.proc[1] = s12.first /\ pair.proc[2] = s12.second
            /\ pair.fs = s12.fs /\ pair.dirs = s12.dirs
            /\ pair.proc[2] = s21.first /\ pair.proc[1] = s21.second
            /\ pair.fs = s21.fs /\ pair.dirs = s21.dirs

\* The files of the call `i`: its temporary file and its storage path.
OwnFiles(i) ==
    {pair.proc[i].tmp,
     cfg.local_path \o PlatformName[pair.proc[i].p.Platform] \o <<"/">>
        \o pair.proc[i].p.Date \o <<"/">> \o pair.proc[i].p.Name}

\* A step of one call leaves the other call's Package and locals as they
\* are, and creates and removes no file but its own.
OwnStep ==
    caller = "pair" =>
        \A i \in 1..2 :
            pair'.proc[i] # pair.proc[i] =>
                /\ pair'.proc[3 - i] = pair.proc[3 - i]
                /\ (pair'.fs \ pair.fs) \cup (pair.fs \ pair'.fs)
                      \subseteq OwnFiles(i)
                /\ OwnFiles(1) \cap OwnFiles(2) = {}

\* C13: two CreateMirror calls on two Packages of different Name, each with
\* its own temporary file, running concurrently under one configuration, end
\* in the state the two calls leave when run one after the other in either
\* order (each Package's LocalURL and RemoteURL, the files on disk, both
\* return values), whatever the interleaving; and no step of one call
\* touches the other's Package, temporary file or storage path.
C13_Independent == []SameAsSequential /\ [][OwnStep]_vars

\* Both calls have placed their file and uploaded it, each under its own
\* path and with its own URLs.
C13_Witness ==
    /\ PairDone
    /\ cfg.local_path # Empty /\ cfg.local_url # Empty /\ cfg.remote_url # Empty
    /\ \A i \in 1..2 :
          /\ pair.proc[i].ret = Nil
          /\ pair.proc[i].p.LocalURL # Empty
          /\ pair.proc[i].p.RemoteURL = pair.proc[i].body
          /\ pair.proc[i].filePath \in pair.fs
    /\ pair.proc[1].p.LocalURL # pair.proc[2].p.LocalURL

====
